---- MODULE Spec2Model ----
(***************************************************************************)
(* Streaming conversational session engine of the desktop renderer:        *)
(*   - the Transport Consumer  chatStream      (api/agent.ts)              *)
(*   - the Session Store       useChatStore    (stores/chatStore.ts)       *)
(*   - the chat page gating    Chat/MessageInput                           *)
(*                                                                         *)
(* Text is a sequence of one-character strings, '' is << >>.  A nullable   *)
(* value is a sequence of length 0 (null / undefined) or 1.                *)
(***************************************************************************)
EXTENDS Integers, Sequences, FiniteSets, TLC

VARIABLES
    \* ---- chatStream (one call) ----
    wire,            \* bytes of the response body not yet read
    sent,            \* the lines the server wrote (history, never changes)
    tail,            \* text the server wrote after the last newline
    tpc,             \* position of the generator: "read", "done"
    pending,         \* bytes held by the TextDecoder (incomplete character)
    buffer,          \* `buffer` of chatStream
    yielded,         \* fragments yielded so far
    \* ---- Session Store ----
    conversations,
    currentConversation,
    isLoadingConversations,
    isLoadingMessages,
    isStreaming,
    streamingContent,
    error,
    \* ---- asynchronous continuations of the store operations ----
    sends,           \* sendMessage calls, by call number
    fetches,         \* fetchConversations calls, by caller
    selects,         \* pending selectConversation calls (id asked for), in call order
    deletes,         \* pending deleteConversation calls, in call order
    \* ---- environment ----
    now,             \* the last value Date.now() returned
    calls,           \* number of store operations invoked so far
    delivered,       \* number of fragments yielded to the store so far
    handled,         \* history: the failure the last step handled, if any
    backend,         \* ids of the conversations the backend holds, newest first
    \* ---- MessageInput ----
    input,           \* `message`, the prop `disabled`, and the calls of onSend
    client           \* api/client.ts: isRefreshing, failedQueue, the stored
                     \* tokens and the requests made through apiClient

tvars == <<wire, sent, tail, tpc, pending, buffer, yielded>>
svars == <<conversations, currentConversation, isLoadingConversations,
           isLoadingMessages, isStreaming, streamingContent, error>>
pvars == <<sends, fetches, selects, deletes>>
evars == <<now, backend>>
vars  == <<tvars, svars, pvars, evars, calls, delivered, handled, input, client>>

----------------------------------------------------------------------------
(* Bounds *)
MaxLines     == 3    \* lines written by the server in one response
MaxSends     == 2    \* sendMessage calls
MaxFragments == 2    \* fragments yielded to the store
MaxClock     == 0    \* clock ticks
MaxCalls     == 2    \* store operations invoked

----------------------------------------------------------------------------
(* Text helpers *)

NL == "\n"

RECURSIVE Flatten(_)
Flatten(ss) == IF ss = << >> THEN << >> ELSE Head(ss) \o Flatten(Tail(ss))

\* String.prototype.startsWith
StartsWith(s, p) == Len(s) >= Len(p) /\ SubSeq(s, 1, Len(p)) = p

\* String.prototype.slice(n)
Slice(s, n) == SubSeq(s, n + 1, Len(s))

\* String.prototype.split('\n'): always at least one element
RECURSIVE SplitFrom(_, _, _)
SplitFrom(s, i, cur) ==
    IF i > Len(s) THEN <<cur>>
    ELSE IF s[i] = NL THEN <<cur>> \o SplitFrom(s, i + 1, << >>)
    ELSE SplitFrom(s, i + 1, Append(cur, s[i]))

Split(s) == SplitFrom(s, 1, << >>)

----------------------------------------------------------------------------
(* Transport Consumer: chatStream, api/agent.ts *)

MaxSubmits   == 3      \* calls of onSend recorded
MaxChunk == 8    \* bytes returned by one reader.read()
MaxRequests == 3      \* requests made through apiClient
MaxUnauthorized == 3  \* 401 responses

Prefix   == <<"d", "a", "t", "a", ":", " ">>
DoneMark == <<"[", "D", "O", "N", "E", "]">>

Eacute      == "U+00E9"      \* a character that takes two bytes in UTF-8
Replacement == "U+FFFD"

\* UTF-8 encoding done by the server
EncodeChar(c) == IF c = Eacute THEN <<"0xC3", "0xA9">> ELSE <<c>>

RECURSIVE Encode(_)
Encode(s) == IF s = << >> THEN << >> ELSE EncodeChar(Head(s)) \o Encode(Tail(s))

\* decoder.decode(value, { stream: true }): an incomplete character at the
\* end of the chunk is held back until the next call
RECURSIVE Decode(_, _)
Decode(pend, bytes) ==
    IF bytes = << >> THEN [text |-> << >>, pending |-> pend]
    ELSE LET b == Head(bytes) IN
         IF pend = << >>
         THEN IF b = "0xC3" THEN Decode(<<b>>, Tail(bytes))
              ELSE LET r == Decode(<< >>, Tail(bytes)) IN
                   [text    |-> <<IF b = "0xA9" THEN Replacement ELSE b>> \o r.text,
                    pending |-> r.pending]
         ELSE IF b = "0xA9"
              THEN LET r == Decode(<< >>, Tail(bytes)) IN
                   [text |-> <<Eacute>> \o r.text, pending |-> r.pending]
              ELSE LET r == Decode(<< >>, bytes) IN
                   [text |-> <<Replacement>> \o r.text, pending |-> r.pending]

\* buffer = lines.pop() || ''
KeepTailDropped(lines) == << >>

KeepTail(lines) == lines[Len(lines)]

IsSentinelLoose(data) == StartsWith(data, DoneMark)

\* data === '[DONE]'
IsSentinel(data) == data = DoneMark

IsDataAlways(line) == TRUE

\* line.startsWith('data: ')
IsData(line) == StartsWith(line, Prefix)

\* for (const line of lines) { ... }: the fragments yielded, and whether the
\* generator returned at the sentinel
RECURSIVE ProcessLines(_, _)
ProcessLines(lines, out) ==
    IF lines = << >> THEN [out |-> out, returned |-> FALSE]
    ELSE LET line == Head(lines) IN
         IF IsData(line)
         THEN LET data == Slice(line, 6) IN
              IF IsSentinel(data) THEN [out |-> out, returned |-> TRUE]
              ELSE ProcessLines(Tail(lines), Append(out, data))
         ELSE ProcessLines(Tail(lines), out)

DataLine(f) == Prefix \o f

\* payloads the server may send as fragments
WireFragments ==
    { << >>, <<Eacute>>, DoneMark \o <<"\r">>, <<" ">> \o DoneMark }

\* lines the server may write
LineSet == { DataLine(f) : f \in WireFragments }
             \cup { DataLine(DoneMark), << >>, <<"d", "a", "t", "a", ":", "x">> }

\* text the server may have written after the last newline when the
\* connection closes
TailSet == { << >>, DataLine(<<"x">>) }

RECURSIVE WithNewlines(_)
WithNewlines(ls) ==
    IF ls = << >> THEN << >> ELSE Head(ls) \o <<NL>> \o WithNewlines(Tail(ls))

SeqsUpTo(S, n) == UNION { [1..k -> S] : k \in 0..n }

\* response.ok and a readable body made of lines of L: the generator is at
\* the read loop
BodyInit(L) ==
    /\ sent \in SeqsUpTo(L, MaxLines)
    /\ tail \in TailSet
    /\ wire = Encode(WithNewlines(sent) \o tail)
    /\ tpc = "read"
    /\ pending = << >>
    /\ buffer = << >>
    /\ yielded = << >>

TransportInit == BodyInit(LineSet)

TransportIdle ==
    /\ sent = << >> /\ tail = << >> /\ wire = << >>
    /\ tpc = "done" /\ pending = << >> /\ buffer = << >> /\ yielded = << >>

CompleteLinesAll(lines) == lines

\* buffer = lines.pop(): the loop over lines sees all pieces but the last
CompleteLines(lines) == SubSeq(lines, 1, Len(lines) - 1)

\* one iteration of the while loop with done = false
ReadChunk ==
    /\ tpc = "read"
    /\ \E n \in 1..MaxChunk :
         /\ n <= Len(wire)
         /\ LET d     == Decode(pending, SubSeq(wire, 1, n))
                lines == Split(buffer \o d.text)
                r     == ProcessLines(CompleteLines(lines), yielded)
            IN /\ wire' = SubSeq(wire, n + 1, Len(wire))
               /\ pending' = d.pending
               /\ buffer' = KeepTail(lines)
               /\ yielded' = r.out
               /\ tpc' = IF r.returned THEN "done" ELSE "read"
    /\ UNCHANGED <<sent, tail>>
    /\ UNCHANGED <<svars, pvars, evars, calls, delivered, handled, input, client>>

AtCloseFlushed(buf, out) == ProcessLines(<<buf>>, out).out

\* what has been yielded once the loop is left by break: nothing follows the
\* loop, so the unterminated rest of the buffer is not looked at
AtClose(buf, out) == out

\* reader.read() resolves with done = true: break
ReadDone ==
    /\ tpc = "read"
    /\ wire = << >>
    /\ tpc' = "done"
    /\ yielded' = AtClose(buffer, yielded)
    /\ UNCHANGED <<wire, sent, tail, pending, buffer>>
    /\ UNCHANGED <<svars, pvars, evars, calls, delivered, handled, input, client>>

\* reader.read() rejects: the generator throws
ReadFail ==
    /\ tpc = "read"
    /\ tpc' = "failed"
    /\ UNCHANGED <<wire, sent, tail, pending, buffer, yielded>>
    /\ UNCHANGED <<svars, pvars, evars, calls, delivered, handled, input, client>>


----------------------------------------------------------------------------
(* Session Store: useChatStore, stores/chatStore.ts *)

Null == << >>
Some(x) == <<x>>

\* values a rejected request or a failed stream may throw: Errors, and a
\* value that is not an Error
NetworkError == [isError |-> TRUE, message |-> "Network Error"]
NonError     == [isError |-> FALSE, message |-> ""]

\* answers of the streaming endpoint: the status, and whether the response
\* has a readable body
Statuses  == { 200, 404, 500 }
Responses == { [status |-> st, body |-> b] : st \in Statuses, b \in BOOLEAN }

\* response.ok
Ok(status) == status >= 200 /\ status <= 299

HttpErrorNoStatus(status) == [isError |-> TRUE, message |-> "HTTP error!"]

\* new Error(`HTTP error! status: ${response.status}`)
HttpError(status) ==
    [isError |-> TRUE, message |-> "HTTP error! status: " \o ToString(status)]

\* new Error('No response body')
NoBodyError == [isError |-> TRUE, message |-> "No response body"]

\* chatStream between the answer of fetch and the read loop: the value it
\* throws, if any
OpenThrows(response) ==
    IF ~Ok(response.status) THEN Some(HttpError(response.status))
    ELSE IF ~response.body THEN Some(NoBodyError)
    ELSE Null

RequestFailures == { NetworkError, NonError }
OpenFailures    ==
    { NetworkError }
        \cup { OpenThrows(r)[1] : r \in { q \in Responses : OpenThrows(q) # Null } }

\* err instanceof Error ? err.message : fallback
ErrorText(err, fallback) == IF err.isError THEN err.message ELSE fallback

SetErrorIfEmpty(old, text) == IF old = Null THEN Some(text) ELSE old

\* set({ error: text }): the slot takes the new text whatever it held
SetError(old, text) == Some(text)

\* arguments of sendMessage and fragments yielded by chatStream
Contents  == { <<"q">> }
Fragments == { <<"a">>, <<"b", "c">> }

\* the k-th fragment of a response: the backend alternates the two
FragmentAt(k) == IF k % 2 = 1 THEN <<"a">> ELSE <<"b", "c">>

\* conversations the backend holds at start, and the ids it assigns to the
\* conversations it creates for a send without conversation_id
InitialIds == <<"c2", "c1">>
NewIds     == <<"n1", "n2", "n3", "n4">>
NewId(i)   == NewIds[i]
ArgIds     == { InitialIds[k] : k \in 1..Len(InitialIds) }

\* number of conversations the backend has created so far (they are never
\* deleted here: deleteConversation is called with initial ids only)
Created == Cardinality({ k \in 1..Len(backend) : backend[k] \notin ArgIds })

InBackend(id) == \E k \in 1..Len(backend) : backend[k] = id

RECURSIVE Without(_, _)
Without(ids, id) ==
    IF ids = << >> THEN << >>
    ELSE IF Head(ids) = id THEN Without(Tail(ids), id)
    ELSE <<Head(ids)>> \o Without(Tail(ids), id)

\* GET /agent/conversations/{id}
ServerMessages(id) ==
    IF id = "c1"
    THEN << [id |-> <<"srv", 1>>, role |-> "user", content |-> <<"q">>, created_at |-> 0],
            [id |-> <<"srv", 2>>, role |-> "assistant", content |-> <<"a">>, created_at |-> 0] >>
    ELSE << >>

ServerConversation(id) ==
    [id |-> id, title |-> "Chat", messages |-> ServerMessages(id),
     created_at |-> 0, updated_at |-> 0]

\* GET /agent/conversations
ServerSummary(id) ==
    [id |-> id, title |-> "Chat", messages |-> << >>, created_at |-> 0, updated_at |-> 0]

ServerList == [k \in 1..Len(backend) |-> ServerSummary(backend[k])]

\* conversations.filter((c) => c.id !== id)
RECURSIVE FilterOut(_, _)
FilterOut(convs, id) ==
    IF convs = << >> THEN << >>
    ELSE IF Head(convs).id # id THEN <<Head(convs)>> \o FilterOut(Tail(convs), id)
    ELSE FilterOut(Tail(convs), id)

RemoveAt(q, k) == SubSeq(q, 1, k - 1) \o SubSeq(q, k + 1, Len(q))

Sends    == 1..MaxSends
Fetchers == 0..MaxSends     \* 0: a direct call (page mount), i: the refresh of send i

IdleSend ==
    [pc |-> "idle", fresh |-> FALSE, userMessage |-> Null, request |-> Null,
     fullContent |-> << >>, received |-> << >>, intact |-> FALSE,
     appended |-> Null]

\* appended: history, currentConversation as the optimistic update left it
ReplacedCancelling ==
    [i \in Sends |-> IF sends[i].pc \in {"connecting", "reading"}
                     THEN [IdleSend EXCEPT !.pc = "failed"] ELSE sends[i]]

\* history: currentConversation was cleared or replaced by another object
\* since the send was made (its `intact` becomes FALSE); the sends in
\* progress are not touched otherwise
Replaced ==
    [i \in Sends |-> IF sends[i].pc # "idle"
                     THEN [sends[i] EXCEPT !.intact = FALSE] ELSE sends[i]]

\* held: history, the list the store held when the call was made
IdleFetch == [pc |-> "idle", response |-> << >>, held |-> << >>]

StoreInit ==
    /\ conversations = << >>
    /\ currentConversation = Null
    /\ isLoadingConversations = FALSE
    /\ isLoadingMessages = FALSE
    /\ isStreaming = FALSE
    /\ streamingContent = << >>
    /\ error = Null
    /\ sends = [i \in Sends |-> IdleSend]
    /\ fetches = [f \in Fetchers |-> IdleFetch]
    /\ selects = << >>
    /\ deletes = << >>
    /\ now = 0
    /\ calls = 0
    /\ delivered = 0
    /\ handled = Null
    /\ backend = InitialIds

\* the store once the chat page has mounted: its effect has called
\* fetchConversations, whose request is pending
MountedInit ==
    /\ conversations = << >>
    /\ currentConversation = Null
    /\ isLoadingConversations = TRUE
    /\ isLoadingMessages = FALSE
    /\ isStreaming = FALSE
    /\ streamingContent = << >>
    /\ error = Null
    /\ sends = [i \in Sends |-> IdleSend]
    /\ fetches = [f \in Fetchers |->
                    IF f = 0 THEN [IdleFetch EXCEPT !.pc = "pending"] ELSE IdleFetch]
    /\ selects = << >>
    /\ deletes = << >>
    /\ now = 0
    /\ calls = 0
    /\ delivered = 0
    /\ handled = Null
    /\ backend = InitialIds

\* values Date.now() may return; the clock never goes back
Times == 0..MaxClock

CaughtErrorsOnly(err) == err.isError

\* try { ... } catch (err) { ... }: the clause takes every value thrown in
\* the try block and nothing is thrown again from it
Caught(err) == TRUE

\* history: the step handled the failure err of operation op; the promise of
\* op rejects when the value is not caught; previous is the error text the
\* store held before
Handled(op, err) ==
    handled' = Some([op |-> op, err |-> err, rejects |-> ~Caught(err),
                     previous |-> error])

\* an operation of the store is invoked
Call == calls < MaxCalls /\ calls' = calls + 1

\* id: `temp-${Date.now()}`
UserMessageId(t) == <<"temp", t>>

\* id: `assistant-${Date.now()}`
AssistantMessageId(t) == <<"assistant", t>>

AccumulateSpaced(fullContent, chunk) ==
    IF fullContent = << >> THEN chunk ELSE fullContent \o <<" ">> \o chunk

\* fullContent += chunk
Accumulate(fullContent, chunk) == fullContent \o chunk

FetchStartSkipped(f) == UNCHANGED <<isLoadingConversations, error, fetches>>

\* the part of fetchConversations that runs before its first await
FetchStart(f) ==
    /\ fetches[f].pc = "idle"
    /\ isLoadingConversations' = TRUE
    /\ error' = Null
    /\ fetches' = [fetches EXCEPT ![f] = [pc |-> "pending", response |-> << >>,
                                          held |-> conversations]]

FetchConversations ==
    /\ FetchStart(0)
    /\ UNCHANGED <<conversations, currentConversation, isLoadingMessages,
                   isStreaming, streamingContent, sends, selects, deletes>>
    /\ UNCHANGED <<tvars, evars>>
    /\ Call
    /\ UNCHANGED delivered
    /\ handled' = Null
    /\ UNCHANGED <<input, client>>

\* the backend answers GET /agent/conversations with the list it holds now
FetchServe(f) ==
    /\ fetches[f].pc = "pending"
    /\ fetches' = [fetches EXCEPT ![f].pc = "answered", ![f].response = ServerList]
    /\ UNCHANGED <<svars, sends, selects, deletes, tvars, evars>>
    /\ UNCHANGED <<calls, delivered>>
    /\ handled' = Null
    /\ UNCHANGED <<input, client>>

\* fetchConversations returns into sendMessage, which then returns: its
\* locals are gone
FetchReturn(f) ==
    sends' = IF f \in Sends THEN [sends EXCEPT ![f] = [IdleSend EXCEPT !.pc = "done",
                                                      !.intact = sends[f].intact]]
             ELSE sends

FetchSuccess(f) ==
    /\ fetches[f].pc = "answered"
    /\ conversations' = fetches[f].response
    /\ isLoadingConversations' = FALSE
    /\ fetches' = [fetches EXCEPT ![f] = IdleFetch]
    /\ FetchReturn(f)
    /\ UNCHANGED <<currentConversation, isLoadingMessages, isStreaming,
                   streamingContent, error, selects, deletes>>
    /\ UNCHANGED <<tvars, evars>>
    /\ UNCHANGED <<calls, delivered>>
    /\ handled' = Null
    /\ UNCHANGED <<input, client>>

AfterFetchFailureEmptied(convs) == << >>

\* the catch block of fetchConversations leaves conversations as it is
AfterFetchFailure(convs) == convs

\* the request is rejected instead of being answered: the catch block
FetchFail(f, err) ==
    /\ fetches[f].pc = "pending"
    /\ error' = SetError(error, ErrorText(err, "Failed to load conversations"))
    /\ isLoadingConversations' = FALSE
    /\ conversations' = AfterFetchFailure(conversations)
    /\ fetches' = [fetches EXCEPT ![f] = IdleFetch]
    /\ FetchReturn(f)
    /\ UNCHANGED <<currentConversation, isLoadingMessages,
                   isStreaming, streamingContent, selects, deletes>>
    /\ UNCHANGED <<tvars, evars>>
    /\ UNCHANGED <<calls, delivered>>
    /\ Handled("fetchConversations", err)
    /\ UNCHANGED <<input, client>>

\* latest: history, the id of the most recent selectConversation call made
\* while this one is pending
SelectConversation(id) ==
    /\ isLoadingMessages' = TRUE
    /\ error' = Null
    /\ selects' = Append([k \in 1..Len(selects) |-> [selects[k] EXCEPT !.latest = id]],
                         [id |-> id, latest |-> id])
    /\ UNCHANGED <<conversations, currentConversation, isLoadingConversations,
                   isStreaming, streamingContent, sends, fetches, deletes>>
    /\ UNCHANGED <<tvars, evars>>
    /\ Call
    /\ UNCHANGED delivered
    /\ handled' = Null
    /\ UNCHANGED <<input, client>>

SelectSuccess(k) ==
    /\ k \in 1..Len(selects)
    /\ InBackend(selects[k].id)
    /\ currentConversation' = Some(ServerConversation(selects[k].id))
    /\ isLoadingMessages' = FALSE
    /\ selects' = RemoveAt(selects, k)
    /\ UNCHANGED <<conversations, isLoadingConversations, isStreaming,
                   streamingContent, error, fetches, deletes>>
    /\ sends' = Replaced
    /\ UNCHANGED <<tvars, evars>>
    /\ UNCHANGED <<calls, delivered>>
    /\ handled' = Null
    /\ UNCHANGED <<input, client>>

AfterSelectFailureCleared(cur) == Null

\* the catch block of selectConversation leaves currentConversation as it is
AfterSelectFailure(cur) == cur

SelectFail(k, err) ==
    /\ k \in 1..Len(selects)
    /\ error' = SetError(error, ErrorText(err, "Failed to load conversation"))
    /\ isLoadingMessages' = FALSE
    /\ currentConversation' = AfterSelectFailure(currentConversation)
    /\ selects' = RemoveAt(selects, k)
    /\ UNCHANGED <<conversations, isLoadingConversations,
                   isStreaming, streamingContent, sends, fetches, deletes>>
    /\ UNCHANGED <<tvars, evars>>
    /\ UNCHANGED <<calls, delivered>>
    /\ Handled("selectConversation", err)
    /\ UNCHANGED <<input, client>>

IsStreamingAfterNewReset(streaming) == FALSE

\* set({ currentConversation: null, streamingContent: '' }) does not name
\* isStreaming
IsStreamingAfterNew(streaming) == streaming

StartNewConversation ==
    /\ currentConversation' = Null
    /\ streamingContent' = << >>
    /\ isStreaming' = IsStreamingAfterNew(isStreaming)
    /\ UNCHANGED <<conversations, isLoadingConversations, isLoadingMessages,
                   error, fetches, selects, deletes, tvars, evars>>
    /\ sends' = Replaced
    /\ Call
    /\ UNCHANGED delivered
    /\ handled' = Null
    /\ UNCHANGED <<input, client>>

ErrorAtDeleteCleared(old) == Null

\* deleteConversation writes nothing before its request: error keeps its value
ErrorAtDelete(old) == old

DeleteConversation(id) ==
    /\ deletes' = Append(deletes, id)
    /\ error' = ErrorAtDelete(error)
    /\ UNCHANGED <<conversations, currentConversation, isLoadingConversations,
                   isLoadingMessages, isStreaming, streamingContent>>
    /\ UNCHANGED <<sends, fetches, selects, tvars, evars>>
    /\ Call
    /\ UNCHANGED delivered
    /\ handled' = Null
    /\ UNCHANGED <<input, client>>

AfterDeleteAlways(cur, id) == Null

\* currentConversation?.id === id ? null : currentConversation
AfterDelete(cur, id) == IF cur # Null /\ cur[1].id = id THEN Null ELSE cur

DeleteSuccess(k) ==
    /\ k \in 1..Len(deletes)
    /\ InBackend(deletes[k])
    /\ backend' = Without(backend, deletes[k])
    /\ conversations' = FilterOut(conversations, deletes[k])
    /\ currentConversation' = AfterDelete(currentConversation, deletes[k])
    /\ deletes' = RemoveAt(deletes, k)
    /\ UNCHANGED <<isLoadingConversations, isLoadingMessages, isStreaming,
                   streamingContent, error, fetches, selects, now>>
    /\ sends' = IF currentConversation' = currentConversation THEN sends ELSE Replaced
    /\ UNCHANGED tvars
    /\ UNCHANGED <<calls, delivered>>
    /\ handled' = Null
    /\ UNCHANGED <<input, client>>

AfterDeleteFailureFiltered(convs, id) == FilterOut(convs, id)

\* the catch block of deleteConversation leaves conversations as it is
AfterDeleteFailure(convs, id) == convs

DeleteFail(k, err) ==
    /\ k \in 1..Len(deletes)
    /\ error' = SetError(error, ErrorText(err, "Failed to delete conversation"))
    /\ conversations' = AfterDeleteFailure(conversations, deletes[k])
    /\ deletes' = RemoveAt(deletes, k)
    /\ UNCHANGED <<currentConversation, isLoadingConversations,
                   isLoadingMessages, isStreaming, streamingContent,
                   sends, fetches, selects>>
    /\ UNCHANGED <<tvars, evars>>
    /\ UNCHANGED <<calls, delivered>>
    /\ Handled("deleteConversation", err)
    /\ UNCHANGED <<input, client>>

ClearError ==
    /\ error' = Null
    /\ UNCHANGED <<conversations, currentConversation, isLoadingConversations,
                   isLoadingMessages, isStreaming, streamingContent,
                   pvars, tvars, evars>>
    /\ Call
    /\ UNCHANGED delivered
    /\ handled' = Null
    /\ UNCHANGED <<input, client>>


----------------------------------------------------------------------------
(* sendMessage *)

UserMessage(content, t) ==
    [id |-> UserMessageId(t), role |-> "user", content |-> content, created_at |-> t]

AssistantMessage(fullContent, t) ==
    [id |-> AssistantMessageId(t), role |-> "assistant", content |-> fullContent,
     created_at |-> t]

PlaceholderEmpty(userMessage, t) ==
    [id |-> "", title |-> "New Conversation", messages |-> << >>,
     created_at |-> t, updated_at |-> t]

\* the placeholder of the else branch
Placeholder(userMessage, t) ==
    [id |-> "", title |-> "New Conversation", messages |-> <<userMessage>>,
     created_at |-> t, updated_at |-> t]

WithMessageFirst(conv, message) == [conv EXCEPT !.messages = <<message>> \o @]

\* { ...conversation, messages: [...conversation.messages, message] }
WithMessage(conv, message) == [conv EXCEPT !.messages = Append(@, message)]

ChatRequestAnyId(cur, content) ==
    [message |-> content,
     conversation_id |-> IF cur # Null THEN Some(cur[1].id) ELSE Null]

\* conversation_id: currentConversation?.id || undefined
ChatRequest(cur, content) ==
    [message |-> content,
     conversation_id |-> IF cur # Null /\ cur[1].id # "" THEN Some(cur[1].id) ELSE Null]

ErrorAtStartKept(old) == old

\* set({ isStreaming: true, streamingContent: '', error: null })
ErrorAtStart(old) == Null

\* sendMessage up to the first await (the fetch inside chatStream); t is the
\* value Date.now() returns
SendMessage(i, content, t) ==
    /\ sends[i].pc = "idle"
    /\ t >= now
    /\ \A j \in Sends : j < i => sends[j].pc # "idle"
    /\ LET cur         == currentConversation
           userMessage == UserMessage(content, t)
       IN /\ currentConversation' =
                IF cur # Null THEN Some(WithMessage(cur[1], userMessage))
                ELSE Some(Placeholder(userMessage, t))
          /\ sends' = [sends EXCEPT ![i] =
                [pc |-> "connecting", fresh |-> (cur = Null), userMessage |-> Some(userMessage),
                 request |-> Some(ChatRequest(cur, content)),
                 fullContent |-> << >>, received |-> << >>, intact |-> TRUE,
                 appended |-> currentConversation']]
    /\ isStreaming' = TRUE
    /\ streamingContent' = << >>
    /\ error' = ErrorAtStart(error)
    /\ UNCHANGED <<conversations, isLoadingConversations, isLoadingMessages,
                   fetches, selects, deletes>>
    /\ now' = t
    /\ UNCHANGED <<tvars, backend>>
    /\ Call
    /\ UNCHANGED delivered
    /\ handled' = Null
    /\ UNCHANGED <<input, client>>

\* the streaming endpoint answers with a success status and a body; a
\* request without conversation_id makes the backend create a conversation
StreamOpen(i) ==
    /\ sends[i].pc = "connecting"
    /\ \E r \in Responses : OpenThrows(r) = Null
    /\ LET cid == sends[i].request[1].conversation_id
       IN /\ cid # Null => InBackend(cid[1])
          /\ backend' = IF cid = Null THEN <<NewId(Created + 1)>> \o backend ELSE backend
    /\ sends' = [sends EXCEPT ![i].pc = "reading"]
    /\ UNCHANGED <<svars, fetches, selects, deletes, now>>
    /\ UNCHANGED tvars
    /\ UNCHANGED <<calls, delivered>>
    /\ handled' = Null
    /\ UNCHANGED <<input, client>>

PublishedChunkOnly(fullContent, chunk) == chunk

\* set({ streamingContent: fullContent })
Published(fullContent, chunk) == fullContent

\* one iteration of the for await loop, for the fragment chunk
LoopBody(i, chunk) ==
    /\ sends[i].pc = "reading"
    /\ LET fullContent == Accumulate(sends[i].fullContent, chunk)
       IN /\ streamingContent' = Published(fullContent, chunk)
          /\ sends' = [sends EXCEPT ![i].fullContent = fullContent,
                                    ![i].received = Append(@, chunk)]
    /\ UNCHANGED <<conversations, currentConversation, isLoadingConversations,
                   isLoadingMessages, isStreaming, error, fetches, selects, deletes>>
    /\ UNCHANGED <<tvars, evars>>
    /\ handled' = Null
    /\ UNCHANGED <<input, client>>

\* one iteration of the for await loop, the stream being the backend's
\* sequence of fragments
StreamFragment(i, chunk) ==
    /\ delivered < MaxFragments
    /\ chunk = FragmentAt(Len(sends[i].received) + 1)
    /\ LoopBody(i, chunk)
    /\ delivered' = delivered + 1 /\ UNCHANGED calls

StateAtEndCaptured(cur, captured) == captured

\* const state = get(): the conversation the assistant message is added to
\* is the one the store holds now
StateAtEnd(cur, captured) == cur

WithoutConversationRestored(captured) ==
    IF captured = Null THEN Null
    ELSE Some(WithMessage(captured[1], AssistantMessage(streamingContent, now)))

\* if (state.currentConversation) has no else: with no current conversation
\* nothing is written and currentConversation stays null
WithoutConversation(captured) == Null

\* the loop ends; the code after it up to the await inside fetchConversations
StreamEnd(i, t) ==
    /\ sends[i].pc = "reading"
    /\ t >= now
    /\ IF currentConversation # Null
       THEN /\ currentConversation' =
                  Some(WithMessage(StateAtEnd(currentConversation, sends[i].appended)[1],
                                   AssistantMessage(sends[i].fullContent, t)))
            /\ isStreaming' = FALSE
            /\ streamingContent' = << >>
       ELSE /\ currentConversation' = WithoutConversation(sends[i].appended)
            /\ UNCHANGED <<isStreaming, streamingContent>>
    /\ FetchStart(i)
    /\ sends' = [sends EXCEPT ![i] = [IdleSend EXCEPT !.pc = "refreshing",
                                                     !.fresh = sends[i].fresh,
                                                     !.intact = sends[i].intact]]
    /\ UNCHANGED <<conversations, isLoadingMessages, selects, deletes>>
    /\ now' = t
    /\ UNCHANGED <<tvars, backend>>
    /\ UNCHANGED <<calls, delivered>>
    /\ handled' = Null
    /\ UNCHANGED <<input, client>>

AfterSendFailureRolledBack(cur) ==
    IF cur = Null THEN Null
    ELSE Some([cur[1] EXCEPT !.messages = SubSeq(@, 1, Len(@) - 1)])

AfterSendFailureCompleted(cur) ==
    IF cur = Null THEN Null
    ELSE Some(WithMessage(cur[1], AssistantMessage(streamingContent, now)))

\* the catch block leaves currentConversation as it is
AfterSendFailure(cur) == cur

\* chatStream throws: the catch block
StreamFail(i, err) ==
    /\ \/ sends[i].pc = "connecting" /\ err \in OpenFailures
       \/ sends[i].pc = "reading" /\ err \in RequestFailures
    /\ error' = SetError(error, ErrorText(err, "Failed to send message"))
    /\ isStreaming' = FALSE
    /\ streamingContent' = << >>
    /\ sends' = [sends EXCEPT ![i] = [IdleSend EXCEPT !.pc = "failed",
                                                     !.intact = sends[i].intact]]
    /\ currentConversation' = AfterSendFailure(currentConversation)
    /\ UNCHANGED <<conversations, isLoadingConversations,
                   isLoadingMessages, fetches, selects, deletes>>
    /\ UNCHANGED <<tvars, evars>>
    /\ UNCHANGED <<calls, delivered>>
    /\ Handled("sendMessage", err)
    /\ UNCHANGED <<input, client>>

----------------------------------------------------------------------------
(* Chat page: <MessageInput onSend={sendMessage} disabled={isStreaming} /> *)

DisabledNever == FALSE

Disabled == isStreaming

\* handleSubmit: if (message.trim() && !disabled) onSend(message.trim())
Submit(i, content, t) ==
    /\ content # << >>
    /\ ~Disabled
    /\ SendMessage(i, content, t)

----------------------------------------------------------------------------
(* MessageInput: the component on its own, onSend and disabled being props *)

Whitespace == { " ", "\n", "\t" }

\* texts the textarea may hold
Texts ==
    { << >>, <<" ", " ">>, <<"\n">>, <<"q">>, <<" ", "q", "\n">>, <<"q", " ", "r">> }

RECURSIVE TrimStart(_)
TrimStart(text) ==
    IF text # << >> /\ Head(text) \in Whitespace THEN TrimStart(Tail(text)) ELSE text

RECURSIVE TrimEnd(_)
TrimEnd(text) ==
    IF text # << >> /\ text[Len(text)] \in Whitespace
    THEN TrimEnd(SubSeq(text, 1, Len(text) - 1)) ELSE text

\* String.prototype.trim
Trim(text) == TrimEnd(TrimStart(text))

\* useState(''), the optional prop not given, no call of onSend yet
InputInit == input = [message |-> << >>, disabled |-> FALSE, onSend |-> << >>]

MaySendWhileDisabled(message, disabled) == Trim(message) # << >>

\* message.trim() && !disabled
MaySend(message, disabled) == Trim(message) # << >> /\ ~disabled

\* handleSubmit
HandleSubmit ==
    /\ IF MaySend(input.message, input.disabled)
       THEN /\ Len(input.onSend) < MaxSubmits
            /\ input' = [input EXCEPT !.onSend = Append(@, Trim(input.message)),
                                      !.message = << >>]
       ELSE UNCHANGED input
    /\ UNCHANGED <<tvars, svars, pvars, evars, calls, delivered, handled, client>>

\* the button is clicked: the form is submitted
Click == HandleSubmit

\* handleKeyDown
HandleKeyDown(key, shiftKey) ==
    IF key = "Enter" /\ ~shiftKey
    THEN HandleSubmit
    ELSE UNCHANGED vars

\* onChange: setMessage(e.target.value)
Change(text) ==
    /\ input' = [input EXCEPT !.message = text]
    /\ UNCHANGED <<tvars, svars, pvars, evars, calls, delivered, handled, client>>

\* the parent renders the component with another value of the prop
Render(disabled) ==
    /\ input' = [input EXCEPT !.disabled = disabled]
    /\ UNCHANGED <<tvars, svars, pvars, evars, calls, delivered, handled, client>>

----------------------------------------------------------------------------
(* api/client.ts: the response interceptor that refreshes the access token *)

ApiRequests == 1..MaxRequests

\* module state at load (isRefreshing = false, failedQueue = []), the tokens
\* in localStorage, and no request made yet. `status`, `retry` (_retry) and
\* `auth` (the Authorization header) are per request; `refreshing` is the set
\* of handlers awaiting the answer of POST /auth/refresh; `unauthorized`
\* counts the 401 responses
ClientInit(stored) ==
    [isRefreshing |-> FALSE,
     failedQueue  |-> << >>,
     refreshing   |-> {},
     token        |-> Some(0),
     refreshToken |-> stored,
     href         |-> "app",
     status       |-> [r \in ApiRequests |-> "idle"],
     retry        |-> [r \in ApiRequests |-> FALSE],
     auth         |-> [r \in ApiRequests |-> Null],
     unauthorized |-> 0]

ClientIdle == client = ClientInit(TRUE)

\* clearStoredTokens
ClearStoredTokens(c) == [c EXCEPT !.token = Null, !.refreshToken = FALSE]

\* apiClient(config): the request interceptor sets the header from the
\* stored token and the request goes out
Dispatch(c, r) ==
    [c EXCEPT !.status[r] = "sent", !.auth[r] = c.token]

\* processQueue: every queued promise is rejected when there is an error and
\* resolved with the token otherwise, whose then re-sends the request; the
\* queue is emptied
RECURSIVE ProcessQueue(_, _, _)
ProcessQueue(c, failed, q) ==
    IF q = << >>
    THEN [c EXCEPT !.failedQueue = << >>]
    ELSE ProcessQueue(IF failed
                      THEN [c EXCEPT !.status[Head(q)] = "rejected"]
                      ELSE Dispatch(c, Head(q)),
                      failed, Tail(q))

QueuesNever(refreshing) == FALSE

\* if (isRefreshing)
Queues(refreshing) == refreshing

\* a caller makes request r
Request(r) ==
    /\ client.status[r] = "idle"
    /\ client' = Dispatch(client, r)
    /\ UNCHANGED <<tvars, svars, pvars, evars, calls, delivered, handled, input>>

\* (response) => response
Succeed(r) ==
    /\ client.status[r] = "sent"
    /\ client' = [client EXCEPT !.status[r] = "ok"]
    /\ UNCHANGED <<tvars, svars, pvars, evars, calls, delivered, handled, input>>

\* the error handler for a response that is not a 401
OtherError(r) ==
    /\ client.status[r] = "sent"
    /\ client' = [client EXCEPT !.status[r] = "rejected"]
    /\ UNCHANGED <<tvars, svars, pvars, evars, calls, delivered, handled, input>>

\* the error handler for a 401 response, up to its first await
Unauthorized(r) ==
    /\ client.status[r] = "sent"
    /\ client.unauthorized < MaxUnauthorized
    /\ LET c == [client EXCEPT !.unauthorized = @ + 1] IN
       client' =
         IF c.retry[r]
         THEN [c EXCEPT !.status[r] = "rejected"]
         ELSE IF Queues(c.isRefreshing)
         THEN [c EXCEPT !.status[r] = "queued",
                        !.failedQueue = Append(@, r)]
         ELSE LET d == [c EXCEPT !.retry[r] = TRUE, !.isRefreshing = TRUE] IN
              IF ~d.refreshToken
              THEN [ClearStoredTokens(d) EXCEPT !.href = "login",
                                                !.status[r] = "rejected"]
              ELSE [d EXCEPT !.status[r] = "refreshing",
                             !.refreshing = @ \cup {r}]
    /\ UNCHANGED <<tvars, svars, pvars, evars, calls, delivered, handled, input>>

\* POST /auth/refresh answers with a new access token: the try block after
\* the await, then finally
RefreshSuccess(r) ==
    /\ r \in client.refreshing
    /\ LET c == [client EXCEPT !.token = Some(client.unauthorized),
                               !.refreshing = @ \ {r}]
           d == ProcessQueue(c, FALSE, c.failedQueue)
       IN client' = [Dispatch(d, r) EXCEPT !.isRefreshing = FALSE]
    /\ UNCHANGED <<tvars, svars, pvars, evars, calls, delivered, handled, input>>

\* POST /auth/refresh fails: the catch block, then finally
RefreshFailure(r) ==
    /\ r \in client.refreshing
    /\ LET c == [client EXCEPT !.refreshing = @ \ {r}]
           d == ProcessQueue(c, TRUE, c.failedQueue)
       IN client' = [ClearStoredTokens(d) EXCEPT !.href = "login",
                                                 !.status[r] = "rejected",
                                                 !.isRefreshing = FALSE]
    /\ UNCHANGED <<tvars, svars, pvars, evars, calls, delivered, handled, input>>

----------------------------------------------------------------------------
(* Specifications *)

Init == TransportIdle /\ StoreInit /\ InputInit /\ ClientIdle

Background ==
    \/ FetchConversations
    \/ \E f \in Fetchers : FetchServe(f)
    \/ \E f \in Fetchers : FetchSuccess(f)
    \/ \E f \in Fetchers, err \in RequestFailures : FetchFail(f, err)
    \/ \E id \in ArgIds : SelectConversation(id)
    \/ \E k \in 1..MaxCalls : SelectSuccess(k)
    \/ \E k \in 1..MaxCalls, err \in RequestFailures : SelectFail(k, err)
    \/ StartNewConversation
    \/ \E id \in ArgIds : DeleteConversation(id)
    \/ \E k \in 1..MaxCalls : DeleteSuccess(k)
    \/ \E k \in 1..MaxCalls, err \in RequestFailures : DeleteFail(k, err)
    \/ ClearError
    \/ \E i \in Sends : StreamOpen(i)
    \/ \E i \in Sends, chunk \in Fragments : StreamFragment(i, chunk)
    \/ \E i \in Sends, t \in Times : StreamEnd(i, t)
    \/ \E i \in Sends, err \in OpenFailures : StreamFail(i, err)

\* the store driven by any caller
Next ==
    \/ \E i \in Sends, content \in Contents, t \in Times : SendMessage(i, content, t)
    \/ Background

Spec == Init /\ [][Next]_vars

\* the store once the chat page has mounted, driven by any caller that sends
\* one message
InitPage == TransportIdle /\ MountedInit /\ InputInit /\ ClientIdle

NextPage ==
    \/ \E content \in Contents, t \in Times : SendMessage(1, content, t)
    \/ Background

SpecPage == InitPage /\ [][NextPage]_vars

\* the store driven by the chat page only
NextUI ==
    \/ \E i \in Sends, content \in Contents, t \in Times : Submit(i, content, t)
    \/ Background

SpecUI == Init /\ [][NextUI]_vars

\* one chatStream call reading a response body
InitTransport == TransportInit /\ StoreInit /\ InputInit /\ ClientIdle

NextTransport ==
    \/ ReadChunk
    \/ ReadDone
    \/ ReadFail

SpecTransport == InitTransport /\ [][NextTransport]_vars

\* one sendMessage consuming one chatStream call: the generator runs only
\* when the for await loop asks for the next fragment, and the loop takes the
\* fragments in the order they were yielded
StreamLines == { DataLine(f) : f \in Fragments } \cup { DataLine(DoneMark) }

InitStream == BodyInit(StreamLines) /\ StoreInit /\ InputInit /\ ClientIdle

Consumed(i) == Len(sends[i].received) = Len(yielded)

Awaiting(i) == sends[i].pc = "reading" /\ Consumed(i)

PullChunk == Awaiting(1) /\ ReadChunk

PullDone == Awaiting(1) /\ ReadDone

PullFail == Awaiting(1) /\ ReadFail

TakeFragment ==
    /\ ~Consumed(1)
    /\ LoopBody(1, yielded[Len(sends[1].received) + 1])
    /\ UNCHANGED <<calls, delivered>>

\* the generator has returned
Finish(t) == tpc = "done" /\ Consumed(1) /\ StreamEnd(1, t)

\* the generator has thrown
Abort == tpc = "failed" /\ Consumed(1) /\ StreamFail(1, NetworkError)

NextStream ==
    \/ \E content \in Contents, t \in Times : SendMessage(1, content, t)
    \/ StreamOpen(1)
    \/ PullChunk
    \/ PullDone
    \/ PullFail
    \/ TakeFragment
    \/ \E t \in Times : Finish(t)
    \/ Abort

SpecStream == InitStream /\ [][NextStream]_vars

\* the MessageInput component driven by the user and its parent
Keys == { "Enter", "a" }

NextInput ==
    \/ Click
    \/ \E key \in Keys, shiftKey \in BOOLEAN : HandleKeyDown(key, shiftKey)
    \/ \E text \in Texts : Change(text)
    \/ \E disabled \in BOOLEAN : Render(disabled)

SpecInput == Init /\ [][NextInput]_vars

\* the API client driven by any caller and by the server, with or without a
\* stored refresh token
InitClient ==
    /\ TransportIdle /\ StoreInit /\ InputInit
    /\ \E stored \in BOOLEAN : client = ClientInit(stored)

\* the server answers request r
Respond(r) == Succeed(r) \/ Unauthorized(r) \/ OtherError(r)

\* the server answers the refresh request of the handler of r
RespondRefresh(r) == RefreshSuccess(r) \/ RefreshFailure(r)

NextClient ==
    \/ \E r \in ApiRequests : Request(r)
    \/ \E r \in ApiRequests : Succeed(r)
    \/ \E r \in ApiRequests : Unauthorized(r)
    \/ \E r \in ApiRequests : OtherError(r)
    \/ \E r \in ApiRequests : RefreshSuccess(r)
    \/ \E r \in ApiRequests : RefreshFailure(r)

SpecClient == InitClient /\ [][NextClient]_vars

\* every request in flight is answered
FairClient ==
    /\ \A r \in ApiRequests : WF_vars(Respond(r))
    /\ \A r \in ApiRequests : WF_vars(RespondRefresh(r))

SpecClientLive == SpecClient /\ FairClient



----------------------------------------------------------------------------
(* Properties *)

Last(q) == q[Len(q)]

Contains(q, x) == \E k \in 1..Len(q) : q[k] = x

Streaming(i) == sends[i].pc \in {"connecting", "reading"}

\* the step is the normal end of the stream of send i
EndsNormally(i) == sends[i].pc = "reading" /\ sends'[i].pc = "refreshing"

\* the step is the failure of the stream of send i
Fails(i) == Streaming(i) /\ sends'[i].pc = "failed"

\* the step is the synchronous part of sendMessage, call i
Starts(i) == sends[i].pc = "idle" /\ sends'[i].pc = "connecting"

\* the response body is f1..fn as data lines followed by the sentinel line
WellFormed ==
    /\ tail = << >>
    /\ Len(sent) >= 1
    /\ sent[Len(sent)] = DataLine(DoneMark)
    /\ \A k \in 1..(Len(sent) - 1) : \E f \in WireFragments : sent[k] = DataLine(f)

SentFragments ==
    [k \in 1..(Len(sent) - 1) |-> CHOOSE f \in WireFragments : sent[k] = DataLine(f)]

\* C1: for a body made of the lines 'data: f1' .. 'data: fn' and then
\* 'data: [DONE]', cut into chunks anywhere, chatStream has at every moment
\* yielded a prefix of f1..fn, never the sentinel, and when it returns it has
\* yielded exactly f1..fn.
C1_FramingRoundTrip ==
    WellFormed =>
        /\ Len(yielded) <= Len(SentFragments)
        /\ yielded = SubSeq(SentFragments, 1, Len(yielded))
        /\ \A k \in 1..Len(yielded) : yielded[k] # DoneMark
        /\ tpc = "done" => yielded = SentFragments

C1_Witness ==
    /\ WellFormed
    /\ tpc = "done"
    /\ Len(yielded) >= 2
    /\ \E k \in 1..Len(yielded) : yielded[k] = <<Eacute>>

\* C2: every step that ends a send's stream, normally or by a failure, leaves
\* isStreaming = false and streamingContent = ''.
C2_TerminalResets ==
    [][\A i \in Sends :
          (EndsNormally(i) \/ Fails(i)) =>
              (isStreaming' = FALSE /\ streamingContent' = << >>)]_vars

\* C3: streamingContent is non-empty only if isStreaming is true.
C3_ContentOnlyWhileStreaming == streamingContent # << >> => isStreaming

\* C4: when the stream of a send ends normally and there is a current
\* conversation, the step appends one message to it, with role 'assistant'
\* and content the concatenation of the fragments received, in arrival order.
C4_ConcatenationExact ==
    [][\A i \in Sends :
          (EndsNormally(i) /\ currentConversation # Null) =>
              /\ currentConversation' # Null
              /\ LET before == currentConversation[1].messages
                     after  == currentConversation'[1].messages
                 IN /\ Len(after) = Len(before) + 1
                    /\ SubSeq(after, 1, Len(before)) = before
                    /\ Last(after).role = "assistant"
                    /\ Last(after).content = Flatten(sends[i].received)]_vars

C4_Witness ==
    /\ currentConversation # Null
    /\ currentConversation[1].messages # << >>
    /\ LET m == Last(currentConversation[1].messages)
       IN /\ m.role = "assistant"
          /\ m.id[1] = "assistant"
          /\ m.content = <<"a", "b", "c">>

\* C5 as stated: after a failure before any fragment, currentConversation
\* contains the user Message of the send, isStreaming is false and error is
\* a non-empty text.
C5_OptimisticSurvival ==
    [][\A i \in Sends :
          (Fails(i) /\ sends[i].received = << >>) =>
              /\ currentConversation' # Null
              /\ Contains(currentConversation'[1].messages, sends[i].userMessage[1])
              /\ isStreaming' = FALSE
              /\ error' # Null
              /\ error'[1] # ""]_vars

\* C5 amended: after a failure before any fragment, isStreaming is false,
\* error is a non-empty text and currentConversation is what it was before
\* the failure was handled; it contains the user Message of the send unless
\* currentConversation was cleared or replaced since the optimistic append.
C5_SurvivalUnlessReplaced ==
    [][\A i \in Sends :
          (Fails(i) /\ sends[i].received = << >>) =>
              /\ currentConversation' = currentConversation
              /\ sends[i].intact =>
                    /\ currentConversation' # Null
                    /\ Contains(currentConversation'[1].messages,
                                sends[i].userMessage[1])
              /\ isStreaming' = FALSE
              /\ error' # Null
              /\ error'[1] # ""]_vars

C5_Witness ==
    /\ sends[1].pc = "failed"
    /\ currentConversation # Null
    /\ Len(currentConversation[1].messages) = 1
    /\ currentConversation[1].messages[1].role = "user"
    /\ ~isStreaming
    /\ error = Some("HTTP error! status: 500")

\* C6: the messages of currentConversation have pairwise distinct ids.
C6_DistinctIds ==
    currentConversation # Null =>
        \A j, k \in 1..Len(currentConversation[1].messages) :
            j # k => currentConversation[1].messages[j].id
                        # currentConversation[1].messages[k].id

\* the step is the handling of the successful response to deleteConversation(id)
DeleteSucceeds(id) ==
    \E k \in 1..Len(deletes) :
        /\ deletes[k] = id
        /\ deletes' = RemoveAt(deletes, k)
        /\ backend' # backend

\* C7: a successful deleteConversation(id) leaves no conversation with that
\* id in conversations and keeps the others in order; it sets
\* currentConversation to none when its id is id, and leaves it unchanged
\* otherwise.
C7_DeleteClearsSelection ==
    [][\A id \in ArgIds :
          DeleteSucceeds(id) =>
              /\ \A k \in 1..Len(conversations') : conversations'[k].id # id
              /\ conversations' = SelectSeq(conversations, LAMBDA c : c.id # id)
              /\ (currentConversation # Null /\ currentConversation[1].id = id)
                    => currentConversation' = Null
              /\ (currentConversation = Null \/ currentConversation[1].id # id)
                    => currentConversation' = currentConversation]_vars

C7_Witness ==
    /\ deletes # << >>
    /\ InBackend(deletes[1])
    /\ currentConversation # Null
    /\ currentConversation[1].id = deletes[1]

\* C8: with sends issued through the chat page only, at most one send has a
\* transport stream in progress.
C8_OneStreamAtATime == Cardinality({ i \in Sends : Streaming(i) }) <= 1

C8_Witness ==
    /\ sends[1].pc \in {"refreshing", "done", "failed"}
    /\ sends[2].pc = "reading"
    /\ isStreaming

\* C9: when the refresh triggered by a send that was issued with no current
\* conversation completes successfully, currentConversation does not carry
\* the unset id ''.
C9_PlaceholderPromoted ==
    [][\A i \in Sends :
          (sends[i].pc = "refreshing" /\ sends[i].fresh
             /\ fetches[i].pc = "answered" /\ sends'[i].pc = "done"
             /\ conversations' = fetches[i].response /\ currentConversation' # Null)
          => currentConversation'[1].id # ""]_vars

\* C10: sendMessage invoked with no current conversation leaves, in the same
\* step, a current conversation with id '', title 'New Conversation' and
\* exactly one message, of role 'user' and with the argument as content.
C10_PlaceholderCreated ==
    [][\A i \in Sends :
          (Starts(i) /\ currentConversation = Null) =>
              /\ currentConversation' # Null
              /\ currentConversation'[1].id = ""
              /\ currentConversation'[1].title = "New Conversation"
              /\ Len(currentConversation'[1].messages) = 1
              /\ currentConversation'[1].messages[1].role = "user"
              /\ currentConversation'[1].messages[1].content
                    = sends'[i].request[1].message]_vars

C10_Witness ==
    /\ sends[1].pc = "connecting"
    /\ sends[1].fresh
    /\ currentConversation # Null
    /\ currentConversation[1].id = ""
    /\ Len(currentConversation[1].messages) = 1

\* the step initiates the GET /agent/conversations request of caller f
Requests(f) == fetches[f].pc # "pending" /\ fetches'[f].pc = "pending"

\* C11: the step that ends a send's stream normally initiates the send's one
\* fetchConversations request, with the assistant message already appended
\* when there is a current conversation; no other step initiates a request on
\* behalf of a send, and the step that handles a transport failure initiates
\* none.
C11_RefreshAfterNormalEnd ==
    [][\A i \in Sends :
          /\ EndsNormally(i) =>
                /\ Requests(i)
                /\ \A f \in Fetchers \ {i} : fetches'[f] = fetches[f]
                /\ currentConversation # Null =>
                      /\ Last(currentConversation'[1].messages).role = "assistant"
                      /\ isLoadingConversations'
          /\ Requests(i) => EndsNormally(i)
          /\ Fails(i) => fetches' = fetches]_vars

C11_Witness ==
    /\ sends[1].pc = "refreshing"
    /\ fetches[1].pc = "pending"
    /\ sends[2].pc = "failed"
    /\ fetches[2].pc = "idle"
    /\ currentConversation # Null
    /\ Last(currentConversation[1].messages).role = "assistant"

\* C12: every step that handles a failure of fetchConversations,
\* selectConversation, deleteConversation or sendMessage (the stream, or the
\* refresh inside sendMessage) catches the thrown value, so that the promise
\* of the operation does not reject, and leaves error a non-empty text.
C12_FailuresBecomeErrorText ==
    [][handled' # Null =>
          /\ ~handled'[1].rejects
          /\ error' # Null
          /\ error'[1] # ""]_vars

C12_Witness ==
    /\ handled # Null
    /\ handled[1].op = "selectConversation"
    /\ handled[1].err = NonError
    /\ ~handled[1].rejects
    /\ error = Some("Failed to load conversation")

\* the step handled a failure of operation op
HandlesFailure(op) == handled' # Null /\ handled'[1].op = op

HasId(convs, id) == \E k \in 1..Len(convs) : convs[k].id = id

\* C13: the step that handles a failed deleteConversation changes no field
\* of the store other than error; the call of deleteConversation leaves
\* conversations as it is, and whenever a step takes a conversation out of
\* conversations the backend no longer holds it.
C13_FailedDeleteChangesOnlyError ==
    [][/\ HandlesFailure("deleteConversation") =>
             /\ UNCHANGED <<conversations, currentConversation, isStreaming,
                            streamingContent, isLoadingConversations,
                            isLoadingMessages>>
             /\ error' # Null
       /\ Len(deletes') > Len(deletes) => conversations' = conversations
       /\ \A id \in ArgIds :
             (HasId(conversations, id) /\ ~HasId(conversations', id))
                => ~\E k \in 1..Len(backend') : backend'[k] = id]_vars

C13_Witness ==
    /\ handled # Null
    /\ handled[1].op = "deleteConversation"
    /\ Len(conversations) = 2
    /\ error # Null

\* the step handles the rejection of the request of fetchConversations call f
FetchFails(f) == fetches[f].pc = "pending" /\ fetches'[f].pc = "idle"

\* the step handles the answer to the request of fetchConversations call f
FetchSucceeds(f) == fetches[f].pc = "answered" /\ fetches'[f].pc = "idle"

\* C14 as stated: a failed fetchConversations leaves conversations equal to
\* the list held before the call, sets error and clears
\* isLoadingConversations; a successful one sets conversations to the
\* returned list in that one step.
C14_StaleListAsBeforeCall ==
    [][\A f \in Fetchers :
          /\ FetchFails(f) =>
                /\ conversations' = fetches[f].held
                /\ error' # Null
                /\ isLoadingConversations' = FALSE
          /\ FetchSucceeds(f) =>
                /\ conversations' = fetches[f].response
                /\ isLoadingConversations' = FALSE]_vars

\* C14 amended: a failed fetchConversations leaves conversations equal to
\* the list held just before the failure was handled, sets error and clears
\* isLoadingConversations; a successful one sets conversations to the
\* returned list in that one step.
C14_StaleListPreserved ==
    [][\A f \in Fetchers :
          /\ FetchFails(f) =>
                /\ conversations' = conversations
                /\ error' # Null
                /\ isLoadingConversations' = FALSE
          /\ FetchSucceeds(f) =>
                /\ conversations' = fetches[f].response
                /\ isLoadingConversations' = FALSE]_vars

C14_Witness ==
    /\ handled # Null
    /\ handled[1].op = "fetchConversations"
    /\ Len(conversations) = 2
    /\ error # Null
    /\ ~isLoadingConversations

\* C15: the step that handles a failed selectConversation leaves
\* currentConversation as it was, sets error and clears isLoadingMessages.
C15_FailedSelectKeepsCurrent ==
    [][HandlesFailure("selectConversation") =>
          /\ currentConversation' = currentConversation
          /\ error' # Null
          /\ isLoadingMessages' = FALSE]_vars

C15_Witness ==
    /\ handled # Null
    /\ handled[1].op = "selectConversation"
    /\ currentConversation # Null
    /\ currentConversation[1].id = "c1"
    /\ error # Null
    /\ ~isLoadingMessages

\* the step processes one more fragment of the stream of send i
TakesFragment(i) ==
    /\ sends[i].pc = "reading" /\ sends'[i].pc = "reading"
    /\ sends'[i].received # sends[i].received

\* C16: each step that processes a fragment of a send takes exactly one
\* fragment, the next one the transport yielded, and leaves streamingContent
\* equal to the concatenation of all fragments received so far in arrival
\* order: one update per fragment, each publishing the next prefix.
C16_PrefixPerFragment ==
    [][\A i \in Sends :
          TakesFragment(i) =>
              /\ Len(sends'[i].received) = Len(sends[i].received) + 1
              /\ SubSeq(sends'[i].received, 1, Len(sends[i].received))
                    = sends[i].received
              /\ streamingContent' = Flatten(sends'[i].received)]_vars

C16_Witness ==
    /\ sends[1].pc = "reading"
    /\ sends[2].pc = "idle"
    /\ sends[1].received = << <<"a">>, <<"b", "c">> >>
    /\ streamingContent = <<"a", "b", "c">>
    /\ isStreaming

\* C17: for every answer with a non-success status chatStream throws an
\* Error whose message carries that status, and for a success status without
\* a body it throws 'No response body'; the step in which a send handles
\* such a failure comes before any fragment, sets error to the message,
\* leaves isStreaming false and appends no message.
C17_OpenFailureEndsSend ==
    [][\A i \in Sends :
          (Fails(i) /\ sends[i].pc = "connecting"
              /\ handled'[1].err # NetworkError) =>
              /\ \A r \in Responses :
                    /\ ~Ok(r.status) =>
                          /\ OpenThrows(r) # Null
                          /\ OpenThrows(r)[1].isError
                          /\ OpenThrows(r)[1].message
                                = "HTTP error! status: " \o ToString(r.status)
                    /\ (Ok(r.status) /\ ~r.body) =>
                          /\ OpenThrows(r) # Null
                          /\ OpenThrows(r)[1].isError
                          /\ OpenThrows(r)[1].message = "No response body"
              /\ \E r \in Responses : OpenThrows(r) = Some(handled'[1].err)
              /\ sends[i].received = << >>
              /\ error' = Some(handled'[1].err.message)
              /\ isStreaming' = FALSE
              /\ currentConversation' = currentConversation]_vars

C17_Witness ==
    /\ sends[1].pc = "failed"
    /\ handled # Null
    /\ handled[1].op = "sendMessage"
    /\ error = Some("HTTP error! status: 404")
    /\ ~isStreaming
    /\ currentConversation # Null
    /\ Len(currentConversation[1].messages) = 1

\* the text each operation shows for a thrown value that is not an Error
FallbackOf(op) ==
    CASE op = "fetchConversations" -> "Failed to load conversations"
      [] op = "selectConversation" -> "Failed to load conversation"
      [] op = "deleteConversation" -> "Failed to delete conversation"
      [] op = "sendMessage"        -> "Failed to send message"

\* C18: error holds at most one text, and every step that handles a failure
\* leaves it equal to the message of that failure, whatever text an earlier
\* failure had left there.
C18_LastErrorWins ==
    [][handled' # Null =>
          /\ handled'[1].previous = error
          /\ Len(error') = 1
          /\ error'[1] = IF handled'[1].err.isError
                         THEN handled'[1].err.message
                         ELSE FallbackOf(handled'[1].op)]_vars

C18_Witness ==
    /\ handled # Null
    /\ handled[1].op = "deleteConversation"
    /\ handled[1].previous = Some("No response body")
    /\ error = Some("Failed to delete conversation")

\* the line is 'data: ' followed by a payload
HasPrefix(line) ==
    /\ Len(line) >= 6
    /\ <<line[1], line[2], line[3], line[4], line[5], line[6]>> = Prefix

PayloadOf(line) == SubSeq(line, 7, Len(line))

\* position of the first line of ls that is exactly 'data: [DONE]', or
\* Len(ls) + 1 when there is none
RECURSIVE FirstSentinel(_, _)
FirstSentinel(ls, k) ==
    IF k > Len(ls) THEN k
    ELSE IF ls[k] = Prefix \o DoneMark THEN k
    ELSE FirstSentinel(ls, k + 1)

\* the payloads of the 'data: ' lines of ls, in order
RECURSIVE PayloadsOf(_)
PayloadsOf(ls) ==
    IF ls = << >> THEN << >>
    ELSE IF HasPrefix(Head(ls)) THEN <<PayloadOf(Head(ls))>> \o PayloadsOf(Tail(ls))
    ELSE PayloadsOf(Tail(ls))

IsPrefixOf(p, q) == Len(p) <= Len(q) /\ p = SubSeq(q, 1, Len(p))

\* number of bytes of the body read so far
BytesRead == Len(Encode(WithNewlines(sent) \o tail)) - Len(wire)

\* C19: whatever the server wrote and however it is cut into chunks,
\* chatStream yields only payloads of lines before the first line whose
\* payload is exactly '[DONE]', in order, and never the sentinel; it has
\* returned once that line has been read to its newline, and when it is done
\* it has yielded all those payloads, those that only resemble the sentinel
\* included.
C19_EndsAtFirstSentinel ==
    LET n      == FirstSentinel(sent, 1)
        before == PayloadsOf(SubSeq(sent, 1, n - 1))
    IN /\ IsPrefixOf(yielded, before)
       /\ \A k \in 1..Len(yielded) : yielded[k] # DoneMark
       /\ (n <= Len(sent)
             /\ BytesRead >= Len(Encode(WithNewlines(SubSeq(sent, 1, n)))))
            => tpc = "done"
       /\ tpc = "done" => yielded = before

C19_Witness ==
    /\ tpc = "done"
    /\ sent = << DataLine(DoneMark \o <<"\r">>), DataLine(DoneMark),
                 DataLine(<< >>) >>
    /\ yielded = << DoneMark \o <<"\r">> >>
    /\ wire = << >>

\* the lines of ls that begin with 'data: '
RECURSIVE DataLinesOf(_)
DataLinesOf(ls) ==
    IF ls = << >> THEN << >>
    ELSE IF HasPrefix(Head(ls)) THEN <<Head(ls)>> \o DataLinesOf(Tail(ls))
    ELSE DataLinesOf(Tail(ls))

\* C20: what chatStream yields for a body is what its line loop yields for
\* the same lines with those that do not begin with 'data: ' taken out:
\* always a prefix of it, and all of it when the generator is done.
C20_OtherLinesIgnored ==
    LET reference == ProcessLines(DataLinesOf(sent), << >>).out
    IN /\ IsPrefixOf(yielded, reference)
       /\ tpc = "done" => yielded = reference

C20_Witness ==
    /\ tpc = "done"
    /\ sent = << << >>, DataLine(<<Eacute>>), <<"d", "a", "t", "a", ":", "x">> >>
    /\ tail = << >>
    /\ yielded = << <<Eacute>> >>

\* the server never wrote the terminator line
NoTerminator == FirstSentinel(sent, 1) > Len(sent)

FailsMidStream(i) == Fails(i) /\ sends[i].received # << >>

\* no other send has been started
Alone(i) == \A j \in Sends : j # i => sends[j].pc = "idle"

\* C22 as stated: when a send fails after one or more fragments,
\* streamingContent becomes empty, no message is appended and
\* currentConversation.messages is exactly what it was after the optimistic
\* append of that send.
C22_AsAfterAppend ==
    [][\A i \in Sends :
          FailsMidStream(i) =>
              /\ streamingContent' = << >>
              /\ currentConversation' # Null
              /\ currentConversation'[1].messages = sends[i].appended[1].messages]_vars

\* C22 amended: when a send fails after one or more fragments, the failure
\* handling empties streamingContent and leaves currentConversation exactly
\* as it found it (no assistant message, nothing rolled back); unless
\* currentConversation was cleared or replaced since the optimistic append,
\* the messages as they were after that append are still a prefix of
\* currentConversation.messages, and all of it when no other send was made.
C22_NothingRolledBack ==
    [][\A i \in Sends :
          FailsMidStream(i) =>
              /\ streamingContent' = << >>
              /\ currentConversation' = currentConversation
              /\ sends[i].intact =>
                    /\ currentConversation' # Null
                    /\ IsPrefixOf(sends[i].appended[1].messages,
                                  currentConversation'[1].messages)
                    /\ Alone(i) =>
                          currentConversation'[1].messages
                              = sends[i].appended[1].messages]_vars

\* a send on an existing conversation has failed after a fragment: the
\* conversation ends with the user message and streamingContent is empty
C22_Witness ==
    /\ sends[1].pc = "failed"
    /\ delivered >= 1
    /\ handled # Null /\ handled[1].op = "sendMessage"
    /\ streamingContent = << >>
    /\ currentConversation # Null
    /\ currentConversation[1].id # ""
    /\ Len(currentConversation[1].messages) >= 1
    /\ Last(currentConversation[1].messages).role = "user"
    /\ sends[2].pc = "idle"

\* C23: the synchronous part of sendMessage is one step, taken before the
\* request is issued (the backend has seen nothing, no fragment has been
\* received): it leaves the user message as the last message of
\* currentConversation, isStreaming true, streamingContent empty and error
\* none, whatever the store held before, in particular after an earlier
\* send has failed or settled and left an error.
C23_StartsStreaming ==
    [][\A i \in Sends :
          Starts(i) =>
              /\ currentConversation' # Null
              /\ sends'[i].userMessage # Null
              /\ sends'[i].userMessage[1].role = "user"
              /\ Last(currentConversation'[1].messages) = sends'[i].userMessage[1]
              /\ isStreaming' = TRUE
              /\ streamingContent' = << >>
              /\ error' = Null
              /\ backend' = backend
              /\ sends'[i].received = << >>]_vars

\* the second of two sendMessage calls has just started after the first one
\* failed: nothing but that call can have cleared the error of the first
C23_Witness ==
    /\ calls = 2
    /\ sends[1].pc = "failed"
    /\ sends[2].pc = "connecting"
    /\ isStreaming /\ streamingContent = << >>
    /\ error = Null

\* C24: the request a send makes carries the sent content as message and,
\* as conversation_id, the id of currentConversation as it was when
\* sendMessage was invoked; it carries none when currentConversation was
\* none or had the unset id ''. The request does not change afterwards, and
\* the backend creates a conversation exactly for a request without id.
C24_RequestFromInvocation ==
    [][\A i \in Sends :
          /\ Starts(i) =>
                /\ sends'[i].request # Null
                /\ sends'[i].request[1].message = sends'[i].userMessage[1].content
                /\ sends'[i].request[1].conversation_id =
                      IF currentConversation = Null THEN Null
                      ELSE IF currentConversation[1].id = "" THEN Null
                      ELSE Some(currentConversation[1].id)
          /\ (Streaming(i) /\ Streaming(i)') =>
                sends'[i].request = sends[i].request
          /\ (sends[i].pc = "connecting" /\ sends'[i].pc = "reading") =>
                (backend' # backend <=> sends[i].request[1].conversation_id = Null)]_vars

\* a second send made on the placeholder conversation (id '') is waiting
\* for its stream: its request carries no conversation_id
C24_Witness ==
    /\ sends[2].pc = "connecting"
    /\ ~sends[2].fresh
    /\ currentConversation # Null /\ currentConversation[1].id = ""
    /\ Len(currentConversation[1].messages) >= 2
    /\ sends[2].request[1].conversation_id = Null
    /\ sends[2].request[1].message = <<"q">>

Started == { i \in Sends : sends[i].pc # "idle" }

Settled(i) == sends[i].pc \in {"refreshing", "done", "failed"}

CompletedNormally == { i \in Started : sends[i].pc \in {"refreshing", "done"} }

\* number of messages of msgs whose id was made by a send with prefix kind
CountOf(msgs, kind) == Cardinality({ k \in 1..Len(msgs) : msgs[k].id[1] = kind })

\* C25: once every send that was made has settled, and currentConversation
\* was neither cleared nor replaced since the first of them was made,
\* currentConversation holds one user message per send made and one
\* assistant message per send that completed normally, also when the sends
\* overlapped.
C25_NoLostUpdate ==
    (/\ Started # {}
     /\ \A i \in Started : Settled(i) /\ sends[i].intact)
        => /\ currentConversation # Null
           /\ CountOf(currentConversation[1].messages, "temp") = Cardinality(Started)
           /\ CountOf(currentConversation[1].messages, "assistant")
                 = Cardinality(CompletedNormally)

\* two sends overlapped (both user messages precede both assistant
\* messages) and both have completed normally
C25_Witness ==
    /\ sends[1].pc \in {"refreshing", "done"} /\ sends[1].intact
    /\ sends[2].pc \in {"refreshing", "done"} /\ sends[2].intact
    /\ currentConversation # Null
    /\ Len(currentConversation[1].messages) = 4
    /\ currentConversation[1].messages[1].role = "user"
    /\ currentConversation[1].messages[2].role = "user"
    /\ currentConversation[1].messages[3].role = "assistant"
    /\ currentConversation[1].messages[4].role = "assistant"

\* the step is not one of send i itself
NotOwnStep(i) ==
    /\ sends'[i].pc = sends[i].pc
    /\ sends'[i].received = sends[i].received

\* C26: a send in progress is never cancelled. Whatever else was invoked,
\* while it reads its stream it can take the next fragment, end normally or
\* fail; the steps of other operations leave it where it was; it leaves the
\* streaming states only by its own failure handling (error set, flags
\* reset) or by its own normal end (assistant message appended when there is
\* a current conversation, refresh started); and each fragment it takes is
\* written to streamingContent, also after currentConversation was cleared
\* or replaced.
C26_NoCancellation ==
    /\ [](\A i \in Sends :
            sends[i].pc = "reading" =>
                /\ ENABLED (\E t \in Times : StreamEnd(i, t))
                /\ ENABLED StreamFail(i, NetworkError)
                /\ delivered < MaxFragments =>
                      ENABLED StreamFragment(i, FragmentAt(Len(sends[i].received) + 1)))
    /\ [][\A i \in Sends :
            Streaming(i) =>
                /\ sends'[i].pc \in
                      {sends[i].pc} \cup
                      (IF sends[i].pc = "connecting" THEN {"reading", "failed"}
                       ELSE {"refreshing", "failed"})
                /\ NotOwnStep(i) =>
                      /\ sends'[i].fullContent = sends[i].fullContent
                      /\ sends'[i].request = sends[i].request
                      /\ sends'[i].userMessage = sends[i].userMessage
                /\ TakesFragment(i) =>
                      streamingContent' = Flatten(sends'[i].received)
                /\ Fails(i) =>
                      /\ handled' # Null /\ handled'[1].op = "sendMessage"
                      /\ error' # Null
                      /\ ~isStreaming' /\ streamingContent' = << >>
                /\ EndsNormally(i) =>
                      /\ fetches'[i].pc = "pending"
                      /\ isLoadingConversations' /\ error' = Null
                      /\ currentConversation # Null =>
                            /\ currentConversation' # Null
                            /\ Last(currentConversation'[1].messages).role = "assistant"
                            /\ Last(currentConversation'[1].messages).content
                                  = Flatten(sends[i].received)
                            /\ ~isStreaming']_vars

\* startNewConversation ran while send 1 was in progress, and the send has
\* taken a fragment since: streamingContent holds it although there is no
\* current conversation
C26_Witness ==
    /\ sends[1].pc = "reading" /\ ~sends[1].intact
    /\ sends[1].received # << >>
    /\ currentConversation = Null
    /\ deletes = << >> /\ selects = << >>
    /\ streamingContent = Flatten(sends[1].received)
    /\ streamingContent # << >>

\* the step is a call that starts no send, makes no request, and changes a
\* store field other than error: a call of startNewConversation
NewConversationStep ==
    /\ calls' = calls + 1
    /\ \A i \in Sends : sends'[i].pc = sends[i].pc
    /\ fetches' = fetches /\ selects' = selects /\ deletes' = deletes
    /\ <<conversations, currentConversation, isLoadingConversations,
         isLoadingMessages, isStreaming, streamingContent>>' #
       <<conversations, currentConversation, isLoadingConversations,
         isLoadingMessages, isStreaming, streamingContent>>

\* C27: a call of startNewConversation is one step that leaves
\* currentConversation none and streamingContent empty, reaches no backend,
\* leaves no request pending, and leaves conversations, isStreaming, error,
\* isLoadingConversations and isLoadingMessages as they were.
C27_StartNewFrame ==
    [][NewConversationStep =>
          /\ currentConversation' = Null
          /\ streamingContent' = << >>
          /\ backend' = backend
          /\ conversations' = conversations
          /\ isStreaming' = isStreaming
          /\ error' = error
          /\ isLoadingConversations' = isLoadingConversations
          /\ isLoadingMessages' = isLoadingMessages]_vars

\* startNewConversation was called right after a send was made: there is
\* no current conversation and isStreaming is still true
C27_Witness ==
    /\ calls = 2
    /\ sends[1].pc = "connecting" /\ ~sends[1].intact
    /\ currentConversation = Null
    /\ streamingContent = << >>
    /\ isStreaming
    /\ error = Null

\* msgs2 is msgs1 followed by one message
AppendsOne(msgs1, msgs2) ==
    /\ Len(msgs2) = Len(msgs1) + 1
    /\ \A k \in 1..Len(msgs1) : msgs2[k] = msgs1[k]

\* C28: both updates a send makes to currentConversation only append. The
\* optimistic update keeps the messages of the conversation that is current
\* when sendMessage is called, unchanged and in order, and adds the user
\* message last (with no current conversation the new one holds just that
\* message); the final update keeps the messages of the conversation that
\* is current when the stream ends and adds the assistant message last. The
\* other fields of the conversation are kept.
C28_AppendOnly ==
    [][\A i \in Sends :
          /\ Starts(i) =>
                /\ currentConversation' # Null
                /\ Last(currentConversation'[1].messages) = sends'[i].userMessage[1]
                /\ IF currentConversation = Null
                   THEN Len(currentConversation'[1].messages) = 1
                   ELSE /\ AppendsOne(currentConversation[1].messages,
                                      currentConversation'[1].messages)
                        /\ currentConversation'[1].id = currentConversation[1].id
                        /\ currentConversation'[1].title = currentConversation[1].title
          /\ (EndsNormally(i) /\ currentConversation # Null) =>
                /\ currentConversation' # Null
                /\ AppendsOne(currentConversation[1].messages,
                              currentConversation'[1].messages)
                /\ Last(currentConversation'[1].messages).role = "assistant"
                /\ Last(currentConversation'[1].messages).id[1] = "assistant"
                /\ currentConversation'[1].id = currentConversation[1].id
                /\ currentConversation'[1].title = currentConversation[1].title]_vars

\* a send made on a conversation loaded from the server has completed: the
\* two server messages are followed by the user and the assistant message
C28_Witness ==
    /\ sends[1].pc \in {"refreshing", "done"}
    /\ currentConversation # Null
    /\ currentConversation[1].id = "c1"
    /\ Len(currentConversation[1].messages) = 4
    /\ SubSeq(currentConversation[1].messages, 1, 2) = ServerMessages("c1")
    /\ currentConversation[1].messages[3].role = "user"
    /\ currentConversation[1].messages[3].id[1] = "temp"
    /\ currentConversation[1].messages[4].role = "assistant"

\* positions of text that hold something else than whitespace
NonBlank(text) == { k \in 1..Len(text) : text[k] \notin Whitespace }

\* text from its first to its last non-blank position
Stripped(text) ==
    IF NonBlank(text) = {} THEN << >>
    ELSE SubSeq(text,
                CHOOSE k \in NonBlank(text) : \A j \in NonBlank(text) : k <= j,
                CHOOSE k \in NonBlank(text) : \A j \in NonBlank(text) : k >= j)

\* the prop disabled is false and the text is not blank
Sendable == ~input.disabled /\ NonBlank(input.message) # {}

\* the step calls onSend once
Invokes == Len(input'.onSend) = Len(input.onSend) + 1

\* C29: in every state, a click on the button and Enter without Shift call
\* onSend when disabled is false and the text is not blank, and change
\* nothing at all otherwise; Enter with Shift and other keys change nothing;
\* and every step that calls onSend calls it once with the text stripped of
\* the whitespace around it and leaves the input empty, and is taken with
\* disabled false and a text that is not blank.
C29_SendsExactlyWhenAllowed ==
    /\ [](/\ (Sendable /\ Len(input.onSend) < MaxSubmits) =>
                /\ ENABLED (Click /\ Invokes)
                /\ ENABLED (HandleKeyDown("Enter", FALSE) /\ Invokes)
          /\ ~Sendable =>
                /\ ~ENABLED <<Click>>_vars
                /\ ~ENABLED <<HandleKeyDown("Enter", FALSE)>>_vars
          /\ \A key \in Keys, shiftKey \in BOOLEAN :
                (key # "Enter" \/ shiftKey) => ~ENABLED <<HandleKeyDown(key, shiftKey)>>_vars)
    /\ [][input'.onSend # input.onSend =>
              /\ Sendable
              /\ input'.onSend = Append(input.onSend, Stripped(input.message))
              /\ input'.message = << >>
              /\ input'.disabled = input.disabled]_vars

\* onSend was called with 'q' for the text ' q\n', and then, the prop
\* being true, the new text 'q r' has not been sent
C29_Witness ==
    /\ input.onSend = << <<"q">> >>
    /\ input.disabled
    /\ input.message = <<"q", " ", "r">>

\* C30: when a send ends normally and appends its assistant message, the
\* conversation it appends to contains the user message of that send and is
\* the conversation the request was addressed to (the same id, or the
\* placeholder for a request without id).
C30_SameConversation ==
    [][\A i \in Sends :
          (EndsNormally(i) /\ currentConversation' # currentConversation) =>
              /\ currentConversation # Null
              /\ Contains(currentConversation[1].messages, sends[i].userMessage[1])
              /\ sends[i].request[1].conversation_id =
                    IF currentConversation[1].id = "" THEN Null
                    ELSE Some(currentConversation[1].id)]_vars

\* the step is the normal end of send i with no current conversation
EndsWithoutConversation(i) == EndsNormally(i) /\ currentConversation = Null

\* C31 as stated: when a send ends normally with no current conversation,
\* no message is appended anywhere, currentConversation stays none and
\* error keeps its value.
C31_DiscardedErrorKept ==
    [][\A i \in Sends :
          EndsWithoutConversation(i) =>
              /\ currentConversation' = Null
              /\ conversations' = conversations
              /\ error' = error]_vars

\* C31 amended: when a send ends normally with no current conversation, no
\* message is appended anywhere and currentConversation stays none; no
\* error is reported, and the refresh of the list starts as after every
\* normal end, which sets error to none whatever it held.
C31_DiscardedErrorCleared ==
    [][\A i \in Sends :
          EndsWithoutConversation(i) =>
              /\ currentConversation' = Null
              /\ conversations' = conversations
              /\ error' = Null
              /\ handled' = Null
              /\ fetches'[i].pc = "pending"
              /\ isLoadingConversations']_vars

\* send 1 has ended normally after startNewConversation: there is no
\* current conversation, the refresh is pending and isStreaming was not reset
C31_Witness ==
    /\ sends[1].pc = "refreshing" /\ ~sends[1].intact
    /\ fetches[1].pc = "pending"
    /\ currentConversation = Null
    /\ isStreaming
    /\ error = Null

\* the step is the success of the only selectConversation call still pending
LastSelectSucceeds ==
    /\ Len(selects) = 1 /\ selects' = << >>
    /\ handled' = Null
    /\ currentConversation' # Null
    /\ currentConversation'[1].id = selects[1].id

\* C32: when the last pending selectConversation call succeeds while
\* currentConversation is the conversation asked for by a call made after
\* it, currentConversation remains that conversation: the response of an
\* earlier call does not replace the result of a later one.
C32_LatestSelectWins ==
    [][(/\ LastSelectSucceeds
        /\ selects[1].latest # selects[1].id
        /\ currentConversation # Null
        /\ currentConversation[1].id = selects[1].latest)
          => currentConversation'[1].id = selects[1].latest]_vars

\* ids whose deleteConversation has succeeded: the backend held them at the
\* start and holds them no more
Deleted == { id \in ArgIds : ~InBackend(id) }

\* C33: no conversation whose deletion has succeeded is in conversations.
C33_DeletedStaysOut ==
    \A k \in 1..Len(conversations) : conversations[k].id \notin Deleted

\* C34: isLoadingConversations is true whenever a fetchConversations
\* request has not been settled yet, and isLoadingMessages is true whenever
\* a selectConversation request has not been settled yet.
C34_LoadingWhileInFlight ==
    /\ (\E f \in Fetchers : fetches[f].pc # "idle") => isLoadingConversations
    /\ selects # << >> => isLoadingMessages

\* the step changes error from a message to none
ClearsError == error # Null /\ error' = Null

\* the step is a call that changes nothing but error: a call of clearError
ClearErrorStep ==
    /\ calls' = calls + 1
    /\ pvars' = pvars
    /\ <<conversations, currentConversation, isLoadingConversations,
         isLoadingMessages, isStreaming, streamingContent>>' =
       <<conversations, currentConversation, isLoadingConversations,
         isLoadingMessages, isStreaming, streamingContent>>

\* a fetchConversations request starts, called directly or by a send that
\* has completed
FetchStarts == \E f \in Fetchers : fetches[f].pc = "idle" /\ fetches'[f].pc = "pending"

SelectStarts == Len(selects') = Len(selects) + 1

\* C35: a step that changes error from a message to none is a call of
\* clearError or the start of sendMessage, of selectConversation or of
\* fetchConversations (the refresh a completed send starts included); a call
\* of deleteConversation or of startNewConversation, the arrival of a
\* fragment, and the handling of a successful response to
\* fetchConversations, selectConversation or deleteConversation leave error
\* as it is.
C35_ErrorClearedOnlyAtStarts ==
    [][/\ ClearsError =>
            \/ ClearErrorStep
            \/ \E i \in Sends : Starts(i)
            \/ SelectStarts
            \/ FetchStarts
       /\ (\/ Len(deletes') > Len(deletes)
           \/ (Len(deletes') < Len(deletes) /\ handled' = Null)
           \/ NewConversationStep
           \/ \E i \in Sends : TakesFragment(i)
           \/ \E f \in Fetchers : FetchSucceeds(f)
           \/ (Len(selects') < Len(selects) /\ handled' = Null))
              => error' = error]_vars

\* after a send failed, selectConversation was called and is pending: of the
\* two calls made, only that one can have cleared the error of the first
C35_Witness ==
    /\ calls = 2
    /\ sends[1].pc = "failed"
    /\ Len(selects) = 1
    /\ isLoadingMessages
    /\ error = Null

\* C36: what chatStream has yielded is always a prefix of the payloads of
\* the newline-terminated 'data: ' lines of the body; when it ends on a
\* body without terminator, all bytes have been read, the text after the
\* last newline is still in its buffer, and what it yielded is exactly the
\* payloads of the terminated lines: the unterminated rest is never
\* yielded, even when it begins with 'data: '.
C36_UnterminatedRestDropped ==
    /\ IsPrefixOf(yielded, PayloadsOf(sent))
    /\ (tpc = "done" /\ NoTerminator) =>
          /\ wire = << >>
          /\ buffer = tail
          /\ yielded = PayloadsOf(sent)

\* the connection closed on a body of terminated data lines followed by an
\* unterminated 'data: x': the lines were yielded, the rest is in the buffer
C36_Witness ==
    /\ tpc = "done" /\ wire = << >>
    /\ NoTerminator
    /\ tail = DataLine(<<"x">>) /\ buffer = tail
    /\ yielded # << >>
    /\ yielded = PayloadsOf(sent)
    /\ ~Contains(yielded, <<"x">>)

\* the step is the error handler receiving a 401 response for request r
Handles401(r) ==
    /\ client.status[r] = "sent"
    /\ client'.status[r] # "sent"
    /\ client'.unauthorized = client.unauthorized + 1

\* the step enqueues request r and starts no refresh
Enqueues(r) ==
    /\ client'.failedQueue = Append(client.failedQueue, r)
    /\ client'.status[r] = "queued"
    /\ client'.refreshing = client.refreshing

\* C37 (as stated): at most one refresh request is in flight in every state,
\* and every step that handles a 401 response while isRefreshing is true
\* appends its request to failedQueue and starts no refresh.
C37_Every401Enqueued ==
    /\ [](Cardinality(client.refreshing) <= 1)
    /\ [][\A r \in ApiRequests :
            Handles401(r) /\ client.isRefreshing => Enqueues(r)]_vars

\* C37 (amended): at most one refresh request is in flight in every state;
\* a step that handles a 401 response while isRefreshing is true appends the
\* request to failedQueue and starts no refresh when the request is not
\* marked _retry, and rejects it, leaving the queue and the refresh in flight
\* as they are, when the request is marked _retry.
C37_OneRefresh ==
    /\ [](Cardinality(client.refreshing) <= 1)
    /\ [][\A r \in ApiRequests :
            Handles401(r) /\ client.isRefreshing =>
              IF client.retry[r]
              THEN /\ client'.status[r] = "rejected"
                   /\ client'.failedQueue = client.failedQueue
                   /\ client'.refreshing = client.refreshing
              ELSE Enqueues(r)]_vars

\* a request waits in the queue and another one, already retried after an
\* earlier refresh, has been rejected while a refresh is in flight
C37_Witness ==
    /\ client.refreshing # {}
    /\ \E r \in ApiRequests : client.status[r] = "queued"
    /\ \E r \in ApiRequests : client.retry[r] /\ client.status[r] = "rejected"
                              /\ r \notin client.refreshing

\* C38: every request placed in failedQueue is eventually resolved (and so
\* re-sent) or rejected, whatever the outcome of the refresh attempt, when
\* the server answers every request in flight.
C38_QueuedEventuallySettled ==
    \A r \in ApiRequests :
        (client.status[r] = "queued") ~> (client.status[r] # "queued")

====
